---- MODULE Spec2Model ----
(***************************************************************************)
(* Model of the ESLint rule `import-category-comments`                     *)
(* (src/src/rules/import-category.ts).                                     *)
(*                                                                         *)
(* Strings are sequences of lexical tokens: the comment markers "//",      *)
(* "/*", "*/", the blank " ", the regular-expression anchor "^", the       *)
(* keywords "import", "type", "from", and one-character letters.  Every    *)
(* string operation of the rule (replace, trim, startsWith, RegExp.test,   *)
(* template concatenation) is computed on those token sequences.           *)
(***************************************************************************)
EXTENDS Integers, Sequences, FiniteSets, TLC

VARIABLES cfg, file, pc, pass, groups, idx, expectedOrder, reports, firstReports

vars == <<cfg, file, pc, pass, groups, idx, expectedOrder, reports, firstReports>>

(***************************************************************************)
(* Bounds of the model.                                                    *)
(***************************************************************************)
MaxImports == 3
MaxCommentedImports == 2
MaxComments == 2
MaxCategories == 2
MaxOrder == 2

(***************************************************************************)
(* String helpers (JavaScript String / RegExp semantics on token strings). *)
(***************************************************************************)
IsSpace(t) == t = " "

\* String.prototype.trim: drop leading blanks ...
RECURSIVE TrimStart(_)
TrimStart(s) ==
    IF s # <<>> /\ IsSpace(Head(s)) THEN TrimStart(Tail(s)) ELSE s

\* ... and trailing blanks.
RECURSIVE TrimEnd(_)
TrimEnd(s) ==
    IF s # <<>> /\ IsSpace(s[Len(s)]) THEN TrimEnd(SubSeq(s, 1, Len(s) - 1)) ELSE s

Trim(s) == TrimEnd(TrimStart(s))

\* comment.startsWith('//')
StartsWithLineMarker(s) == s # <<>> /\ Head(s) = "//"

\* comment.replace(/^\/\/\s*/, '')
StripLineMarker(s) ==
    IF StartsWithLineMarker(s) THEN TrimStart(Tail(s)) ELSE s

\* s.replace(/^\/\*\s*/, '')
StripBlockOpen(s) ==
    IF s # <<>> /\ Head(s) = "/*" THEN TrimStart(Tail(s)) ELSE s

\* s.replace(/\s*\*\/$/, '')
StripBlockClose(s) ==
    IF s # <<>> /\ s[Len(s)] = "*/" THEN TrimEnd(SubSeq(s, 1, Len(s) - 1)) ELSE s

\* Number of characters of a token, and of a token string.
CharLen(t) ==
    CASE t \in {"//", "/*", "*/"} -> 2
      [] t = "import" -> 6
      [] t \in {"type", "from"} -> 4
      [] OTHER -> 1

RECURSIVE Width(_)
Width(s) == IF s = <<>> THEN 0 ELSE CharLen(Head(s)) + Width(Tail(s))

\* new RegExp(pattern).test(path) for patterns made of an optional leading
\* "^" anchor followed by literal characters.
LiteralAt(lit, path, k) ==
    /\ k + Len(lit) - 1 <= Len(path)
    /\ \A j \in 1..Len(lit) : path[k + j - 1] = lit[j]

RegExpTest(pattern, path) ==
    IF pattern # <<>> /\ Head(pattern) = "^"
    THEN LiteralAt(Tail(pattern), path, 1)
    ELSE \E k \in 1..(Len(path) + 1) : LiteralAt(pattern, path, k)

(***************************************************************************)
(* The host's view of a file (ESLint SourceCode).  A file is the sequence  *)
(* of its import declarations; an import is                                *)
(*   [head |-> tokens up to the binding, path |-> tokens of source.value,  *)
(*    comments |-> its leading comments, each [type, value]].              *)
(* Each leading comment stands on a line of its own, directly above the    *)
(* import; each import ends its line.                                      *)
(***************************************************************************)
TypeHead == <<"import", " ", "type", " ">>
ValueHead == <<"import", " ">>

\* sourceCode.getText(importNode)
ImportText(imp) == imp.head \o <<"X", " ", "from", " ", "'">> \o imp.path \o <<"'">>

\* The source text of a comment token.
CommentSrc(cm) ==
    IF cm.type = "Line" THEN <<"//">> \o cm.value
    ELSE <<"/*">> \o cm.value \o <<"*/">>

RECURSIVE CommentsLen(_)
CommentsLen(cms) ==
    IF cms = <<>> THEN 0 ELSE Width(CommentSrc(Head(cms))) + 1 + CommentsLen(Tail(cms))

\* Offset of the first character of the lines that belong to import k.
RECURSIVE BlockStart(_, _)
BlockStart(imports, k) ==
    IF k = 1 THEN 0
    ELSE BlockStart(imports, k - 1) + CommentsLen(imports[k - 1].comments)
         + Width(ImportText(imports[k - 1])) + 1

\* importNode.range[0]
NodeStart(imports, k) == BlockStart(imports, k) + CommentsLen(imports[k].comments)

\* comment.range of the j-th leading comment of import k
CommentRange(imports, k, j) ==
    LET s == BlockStart(imports, k) + CommentsLen(SubSeq(imports[k].comments, 1, j - 1))
    IN  <<s, s + Width(CommentSrc(imports[k].comments[j]))>>

\* sourceCode.getCommentsBefore(importNode)
getCommentsBefore(imports, k) == imports[k].comments

(***************************************************************************)
(* create(context): the rule's closures.  c is the options object after    *)
(* destructuring (lines 108-115); a null or empty typeImportsCategory is   *)
(* the empty string <<>>, both being falsy.                                *)
(***************************************************************************)
null == [isNull |-> TRUE, comment |-> <<>>, order |-> 0]

Category(comment, order) == [isNull |-> FALSE, comment |-> comment, order |-> order]

\* /^import\s+type\s+/.test(sourceCode.getText(importNode))
isTypeOnlyImport(imp) ==
    LET t == ImportText(imp)
        a == TrimStart(Tail(t))
        b == IF a = <<>> THEN <<>> ELSE Tail(a)
    IN  /\ Head(t) = "import"
        /\ Len(a) < Len(Tail(t))
        /\ a # <<>> /\ Head(a) = "type"
        /\ b # <<>> /\ IsSpace(Head(b))

\* categoriesWithRegex.find((cat) => cat.comment === label): index, 0 if none
FindByComment(cats, label) ==
    IF \E k \in 1..Len(cats) : cats[k].comment = label
    THEN CHOOSE k \in 1..Len(cats) :
            /\ cats[k].comment = label
            /\ \A j \in 1..(k - 1) : cats[j].comment # label
    ELSE 0

\* category.patterns.some((pattern) => pattern.test(importPath))
SomePatternMatches(cat, importPath) ==
    \E p \in 1..Len(cat.patterns) : RegExpTest(cat.patterns[p], importPath)

\* Mutant: the matching entry of the smallest order wins, not the first declared.
FirstMatching_ByOrder(cats, importPath) ==
    IF \E k \in 1..Len(cats) : SomePatternMatches(cats[k], importPath)
    THEN CHOOSE k \in 1..Len(cats) :
            /\ SomePatternMatches(cats[k], importPath)
            /\ \A j \in 1..Len(cats) :
                  SomePatternMatches(cats[j], importPath) =>
                      \/ cats[k].order < cats[j].order
                      \/ (cats[k].order = cats[j].order /\ k <= j)
    ELSE 0

\* for (const category of categoriesWithRegex) { if (...some...) return ... }
FirstMatching(cats, importPath) ==
    IF \E k \in 1..Len(cats) : SomePatternMatches(cats[k], importPath)
    THEN CHOOSE k \in 1..Len(cats) :
            /\ SomePatternMatches(cats[k], importPath)
            /\ \A j \in 1..(k - 1) : ~SomePatternMatches(cats[j], importPath)
    ELSE 0

\* Mutant: the patterns are tried first, the type slot only when none matches.
getCategoryForImport_PatternsFirst(c, importPath, isTypeOnly) ==
    LET m == FirstMatching(c.categories, importPath)
    IN  IF m # 0
        THEN Category(c.categories[m].comment, c.categories[m].order)
        ELSE IF isTypeOnly /\ c.typeImportsCategory # <<>>
             THEN LET t == FindByComment(c.categories, c.typeImportsCategory)
                  IN  IF t # 0
                      THEN Category(c.categories[t].comment, c.categories[t].order)
                      ELSE Category(c.typeImportsCategory, 0)
             ELSE null

\* Mutant: a type label with no entry of its own is given up, and the
\* patterns decide.
getCategoryForImport_EntryOnly(c, importPath, isTypeOnly) ==
    LET t == FindByComment(c.categories, c.typeImportsCategory)
        m == FirstMatching(c.categories, importPath)
    IN  IF isTypeOnly /\ c.typeImportsCategory # <<>> /\ t # 0
        THEN Category(c.categories[t].comment, c.categories[t].order)
        ELSE IF m # 0
             THEN Category(c.categories[m].comment, c.categories[m].order)
             ELSE null

getCategoryForImport(c, importPath, isTypeOnly) ==
    IF isTypeOnly /\ c.typeImportsCategory # <<>>
    THEN LET t == FindByComment(c.categories, c.typeImportsCategory)
         IN  IF t # 0
             THEN Category(c.categories[t].comment, c.categories[t].order)
             ELSE Category(c.typeImportsCategory, 0)
    ELSE LET m == FirstMatching(c.categories, importPath)
         IN  IF m # 0
             THEN Category(c.categories[m].comment, c.categories[m].order)
             ELSE null

\* The category of import k of the file.
CategoryOf(c, imports, k) ==
    getCategoryForImport(c, imports[k].path, isTypeOnlyImport(imports[k]))

\* groups: a Map in insertion order, as a sequence of [key, imports] entries;
\* imports are kept as positions in the file.
KeyIndex(g, key) ==
    IF \E e \in 1..Len(g) : g[e].key = key
    THEN CHOOSE e \in 1..Len(g) : g[e].key = key
    ELSE 0

\* Mutant: a new bucket is put before the existing ones.
GroupPush_NewFirst(g, key, k) ==
    LET e == KeyIndex(g, key)
    IN  IF e = 0
        THEN <<[key |-> key, imports |-> <<k>>]>> \o g
        ELSE [g EXCEPT ![e].imports = Append(@, k)]

GroupPush(g, key, k) ==
    LET e == KeyIndex(g, key)
    IN  IF e = 0
        THEN Append(g, [key |-> key, imports |-> <<k>>])
        ELSE [g EXCEPT ![e].imports = Append(@, k)]

RECURSIVE GroupFrom(_, _, _, _)
GroupFrom(c, imports, k, g) ==
    IF k > Len(imports) THEN g
    ELSE LET category == CategoryOf(c, imports, k)
         IN  GroupFrom(c, imports, k + 1,
                       IF category.isNull THEN g ELSE GroupPush(g, category.comment, k))

groupImportsByCategory(c, imports) == GroupFrom(c, imports, 1, <<>>)

formatComment(c, comment) ==
    IF c.commentStyle = "block"
    THEN <<"/*", " ">> \o StripLineMarker(comment) \o <<" ", "*/">>
    ELSE IF ~StartsWithLineMarker(comment)
         THEN <<"//", " ">> \o comment
         ELSE comment

(***************************************************************************)
(* checkImportOrder: one visit of the forEach body (lines 184-205), on the *)
(* walk state st = [expectedOrder, reports].                               *)
(***************************************************************************)
NoFix == [kind |-> "none", range |-> <<0, 0>>, text |-> <<>>]

WrongOrderReport(imports, k, category, expected) ==
    [messageId |-> "wrongOrder",
     node |-> k,
     data |-> [importPath |-> imports[k].path,
               category |-> category.comment,
               expectedOrder |-> ToString(expected),
               actualOrder |-> ToString(category.order)],
     fix |-> NoFix]

\* Mutant: an unclassified import resets the ratchet.
OrderVisit_ResetOnNull(c, imports, k, st) ==
    LET category == CategoryOf(c, imports, k)
    IN  IF category.isNull THEN [st EXCEPT !.expectedOrder = 0]
        ELSE IF category.order < st.expectedOrder
             THEN [st EXCEPT !.reports =
                      Append(@, WrongOrderReport(imports, k, category, st.expectedOrder))]
             ELSE [st EXCEPT !.expectedOrder = category.order]

\* Mutant: a reported import moves the ratchet to its own order too.
OrderVisit_AlwaysAssign(c, imports, k, st) ==
    LET category == CategoryOf(c, imports, k)
    IN  IF category.isNull THEN st
        ELSE IF category.order < st.expectedOrder
             THEN [expectedOrder |-> category.order,
                   reports |-> Append(st.reports,
                       WrongOrderReport(imports, k, category, st.expectedOrder))]
             ELSE [st EXCEPT !.expectedOrder = category.order]

OrderVisit(c, imports, k, st) ==
    LET category == CategoryOf(c, imports, k)
    IN  IF category.isNull THEN st
        ELSE IF category.order < st.expectedOrder
             THEN [st EXCEPT !.reports =
                      Append(@, WrongOrderReport(imports, k, category, st.expectedOrder))]
             ELSE [st EXCEPT !.expectedOrder = category.order]

RECURSIVE OrderWalk(_, _, _)
OrderWalk(c, imports, k) ==
    IF k = 0 THEN [expectedOrder |-> 0, reports |-> <<>>]
    ELSE OrderVisit(c, imports, k, OrderWalk(c, imports, k - 1))

checkImportOrder(c, imports) ==
    IF ~c.enforceOrder THEN <<>>
    ELSE OrderWalk(c, imports, Len(imports)).reports

(***************************************************************************)
(* checkCategoryComments (lines 208-255).                                  *)
(***************************************************************************)
\* catA?.order ?? (a === typeImportsCategory ? 0 : 999)
SortOrder(c, key) ==
    LET e == FindByComment(c.categories, key)
    IN  IF e # 0 THEN c.categories[e].order
        ELSE IF key = c.typeImportsCategory THEN 0 ELSE 999

\* Array.prototype.sort with (a, b) => orderA - orderB: a stable sort.
RECURSIVE SortKeys(_, _)
SortKeys(c, keys) ==
    IF keys = <<>> THEN <<>>
    ELSE LET init == SortKeys(c, SubSeq(keys, 1, Len(keys) - 1))
             key == keys[Len(keys)]
             at == Cardinality({e \in 1..Len(init) : SortOrder(c, init[e]) <= SortOrder(c, key)})
         IN  SubSeq(init, 1, at) \o <<key>> \o SubSeq(init, at + 1, Len(init))

GroupKeys(g) == [e \in 1..Len(g) |-> g[e].key]

\* groups.get(category)
GroupGet(g, key) == g[KeyIndex(g, key)].imports

\* category.replace(^//\s*).replace(^/*\s*).replace(\s**/$).trim()
CategoryText(category) ==
    Trim(StripBlockClose(StripBlockOpen(StripLineMarker(category))))

\* commentText === categoryText ||
\*   comment.value.trim() === category.replace(/^\/\/\s*/, '').trim()
MatchesLabel(cm, category) ==
    LET commentText == Trim(cm.value)
    IN  \/ commentText = CategoryText(category)
        \/ commentText = Trim(StripLineMarker(category))

\* Mutant: the comment's text is compared without trim().
hasCorrectComment_Untrimmed(imports, k, category) ==
    \E j \in 1..Len(getCommentsBefore(imports, k)) :
        \/ getCommentsBefore(imports, k)[j].value = CategoryText(category)
        \/ getCommentsBefore(imports, k)[j].value = Trim(StripLineMarker(category))

\* commentsBefore.some(...)
hasCorrectComment(imports, k, category) ==
    \E j \in 1..Len(getCommentsBefore(imports, k)) :
        MatchesLabel(getCommentsBefore(imports, k)[j], category)

\* fixer.insertTextBefore(firstImport, `${expectedComment}\n`)
InsertTextBefore(imports, k, text) ==
    [kind |-> "insert",
     range |-> <<NodeStart(imports, k), NodeStart(imports, k)>>,
     text |-> text]

\* fixer.removeRange([comment.range[0], comment.range[1] + 1])
RemoveCommentFix(imports, k, j) ==
    [kind |-> "remove",
     range |-> <<CommentRange(imports, k, j)[1], CommentRange(imports, k, j)[2] + 1>>,
     text |-> <<>>]

MissingCommentReport(c, imports, k, category) ==
    [messageId |-> "missingComment",
     node |-> k,
     data |-> [category |-> formatComment(c, category)],
     fix |-> InsertTextBefore(imports, k, formatComment(c, category) \o <<"\n">>)]

DuplicateCommentReport(c, imports, k, j, category) ==
    [messageId |-> "duplicateComment",
     node |-> k,
     data |-> [category |-> formatComment(c, category)],
     fix |-> RemoveCommentFix(imports, k, j)]

\* sourceCode.getCommentsBefore(importNode).forEach(...), from comment j on
RECURSIVE DuplicatesOfImport(_, _, _, _, _)
DuplicatesOfImport(c, imports, k, j, category) ==
    IF j > Len(getCommentsBefore(imports, k)) THEN <<>>
    ELSE (IF MatchesLabel(getCommentsBefore(imports, k)[j], category)
          THEN <<DuplicateCommentReport(c, imports, k, j, category)>>
          ELSE <<>>)
         \o DuplicatesOfImport(c, imports, k, j + 1, category)

\* restImports.forEach(...)
RECURSIVE DuplicatesOfRest(_, _, _, _)
DuplicatesOfRest(c, imports, rest, category) ==
    IF rest = <<>> THEN <<>>
    ELSE DuplicatesOfImport(c, imports, Head(rest), 1, category)
         \o DuplicatesOfRest(c, imports, Tail(rest), category)

\* Mutant: the first import is searched for duplicates as well.
restImports_All(categoryImports) == categoryImports

\* The members of a group whose comments are searched for duplicates:
\* const [firstImport, ...restImports] = categoryImports
restImports(categoryImports) == Tail(categoryImports)

\* The body of sortedCategories.forEach for one category.
CategoryReports(c, imports, g, category) ==
    LET categoryImports == GroupGet(g, category)
        firstImport == Head(categoryImports)
    IN  (IF ~hasCorrectComment(imports, firstImport, category)
         THEN <<MissingCommentReport(c, imports, firstImport, category)>>
         ELSE <<>>)
        \o DuplicatesOfRest(c, imports, restImports(categoryImports), category)

RECURSIVE CommentReportsFrom(_, _, _, _)
CommentReportsFrom(c, imports, g, sortedCategories) ==
    IF sortedCategories = <<>> THEN <<>>
    ELSE CategoryReports(c, imports, g, Head(sortedCategories))
         \o CommentReportsFrom(c, imports, g, Tail(sortedCategories))

\* Mutant: the comment check is switched by the order flag.
checkCategoryComments_OrderFlag(c, imports, g) ==
    IF ~c.enforceOrder THEN <<>>
    ELSE CommentReportsFrom(c, imports, g, SortKeys(c, GroupKeys(g)))

checkCategoryComments(c, imports, g) ==
    IF ~c.enforceComments THEN <<>>
    ELSE CommentReportsFrom(c, imports, g, SortKeys(c, GroupKeys(g)))

\* Program(node): the reports of one run of the rule on a file.
ProgramReports(c, imports) ==
    IF Len(imports) = 0 THEN <<>>
    ELSE checkImportOrder(c, imports)
         \o checkCategoryComments(c, imports, groupImportsByCategory(c, imports))

(***************************************************************************)
(* The host applying the fixes of one run (ESLint's --fix) and reading the *)
(* file again.  The edits are applied to the text; the leading comments of *)
(* each import are then what the lexer finds directly above it.            *)
(***************************************************************************)
IndexOf(s, t) ==
    IF \E k \in 1..Len(s) : s[k] = t
    THEN CHOOSE k \in 1..Len(s) : s[k] = t /\ \A j \in 1..(k - 1) : s[j] # t
    ELSE 0

\* The comments that directly precede what follows `text`; stray is TRUE when
\* the text holds a token that is no comment and no blank.
RECURSIVE LexFrom(_, _)
LexFrom(text, acc) ==
    IF text = <<>> THEN acc
    ELSE IF Head(text) \in {" ", "\n"} THEN LexFrom(Tail(text), acc)
    ELSE IF Head(text) = "//"
    THEN LET nl == IndexOf(Tail(text), "\n")
             end == IF nl = 0 THEN Len(Tail(text)) + 1 ELSE nl
         IN  LexFrom(SubSeq(Tail(text), end + 1, Len(Tail(text))),
                     [acc EXCEPT !.comments =
                         Append(@, [type |-> "Line", value |-> SubSeq(Tail(text), 1, end - 1)])])
    ELSE IF Head(text) = "/*" /\ IndexOf(Tail(text), "*/") # 0
    THEN LET close == IndexOf(Tail(text), "*/")
         IN  LexFrom(SubSeq(Tail(text), close + 1, Len(Tail(text))),
                     [acc EXCEPT !.comments =
                         Append(@, [type |-> "Block", value |-> SubSeq(Tail(text), 1, close - 1)])])
    ELSE LexFrom(Tail(text), [comments |-> <<>>, stray |-> TRUE])

Lex(text) == LexFrom(text, [comments |-> <<>>, stray |-> FALSE])

Fixes(rs) == {rs[r].fix : r \in 1..Len(rs)}

\* Whether an applied removal deletes the j-th leading comment of import k.
Removed(imports, rs, k, j) ==
    \E f \in Fixes(rs) :
        /\ f.kind = "remove"
        /\ f.range[1] <= CommentRange(imports, k, j)[1]
        /\ CommentRange(imports, k, j)[2] <= f.range[2]

RECURSIVE KeptFrom(_, _, _, _)
KeptFrom(imports, rs, k, j) ==
    IF j > Len(imports[k].comments) THEN <<>>
    ELSE (IF Removed(imports, rs, k, j) THEN <<>> ELSE <<imports[k].comments[j]>>)
         \o KeptFrom(imports, rs, k, j + 1)

\* The text inserted directly before import k, <<>> if none.
InsertedBefore(imports, rs, k) ==
    LET fs == {f \in Fixes(rs) : f.kind = "insert" /\ f.range[1] = NodeStart(imports, k)}
    IN  IF fs = {} THEN <<>> ELSE (CHOOSE f \in fs : TRUE).text

FixedComments(imports, rs, k) ==
    LET lexed == Lex(InsertedBefore(imports, rs, k))
    IN  IF lexed.stray THEN lexed.comments
        ELSE KeptFrom(imports, rs, k, 1) \o lexed.comments

FixedFile(imports, rs) ==
    [k \in 1..Len(imports) |->
        [imports[k] EXCEPT !.comments = FixedComments(imports, rs, k)]]

(***************************************************************************)
(* The inputs: option objects and files.                                   *)
(***************************************************************************)
SeqsUpTo(S, n) == UNION {[1..m -> S] : m \in 0..n}

LineA == <<"//", " ", "A">>
BareA == <<"A">>
BlockA == <<"/*", " ", "A", " ", "*/">>
LineB == <<"//", " ", "B">>
LineT == <<"//", " ", "T">>

PathA == <<"a">>
PathBA == <<"b", "a">>
PathC == <<"c">>

HasA == <<"a">>
StartsA == <<"^", "a">>
StartsB == <<"^", "b">>
StartsC == <<"^", "c">>

Orders == (0 - 1)..MaxOrder

Options(categories, typeImportsCategory, enforceOrder, enforceComments, commentStyle) ==
    [categories |-> categories,
     typeImportsCategory |-> typeImportsCategory,
     enforceOrder |-> enforceOrder,
     enforceComments |-> enforceComments,
     commentStyle |-> commentStyle]

Import(head, path, comments) == [head |-> head, path |-> path, comments |-> comments]

CommentA == [type |-> "Line", value |-> <<" ", "A">>]
CommentB == [type |-> "Block", value |-> <<" ", "B", " ">>]

\* Any two categories over overlapping patterns, any type slot; one import.
ClassifyCategories ==
    [comment : {LineA, LineB},
     patterns : {<<HasA>>, <<StartsB>>, <<StartsC, StartsA>>},
     order : (MaxOrder - 1)..MaxOrder]

ClassifyConfigs ==
    {Options(cats, t, TRUE, TRUE, "line") :
        cats \in SeqsUpTo(ClassifyCategories, MaxCategories), t \in {<<>>, LineA, LineT}}

ClassifyFiles ==
    {<<Import(h, p, <<>>)>> : h \in {TypeHead, ValueHead}, p \in {PathA, PathBA, PathC}}

\* Two categories with any orders, order enforcement on; files of up to
\* MaxImports imports.
OrderConfigs ==
    {Options(<<[comment |-> LineA, patterns |-> <<StartsA>>, order |-> oa],
               [comment |-> LineB, patterns |-> <<StartsB>>, order |-> ob]>>,
             t, TRUE, TRUE, "line") :
        oa \in Orders, ob \in Orders, t \in {<<>>, LineT}}

OrderImports ==
    {Import(ValueHead, PathA, <<>>), Import(ValueHead, PathBA, <<>>),
     Import(ValueHead, PathC, <<>>), Import(TypeHead, PathA, <<>>)}

OrderFiles == SeqsUpTo(OrderImports, MaxImports)

\* Labels in every written form, both comment styles, every combination of
\* the two enforcement flags; files whose imports carry up to MaxComments
\* leading comments.
CommentConfigs ==
    {Options(<<[comment |-> la, patterns |-> <<HasA>>, order |-> 1],
               [comment |-> LineB, patterns |-> <<StartsC>>, order |-> 2]>>,
             <<>>, eo, ec, style) :
        la \in {LineA, BareA, BlockA}, eo \in BOOLEAN, ec \in BOOLEAN,
        style \in {"line", "block"}}

CommentLists ==
    SeqsUpTo({CommentA}, MaxComments) \cup {<<CommentB>>, <<CommentB, CommentA>>}

CommentImports ==
    {Import(ValueHead, PathA, cms) : cms \in CommentLists}
    \cup {Import(ValueHead, PathC, cms) : cms \in {<<>>, <<CommentB>>}}

CommentFiles == SeqsUpTo(CommentImports, MaxCommentedImports)

Inputs ==
    (ClassifyConfigs \X ClassifyFiles)
    \cup (OrderConfigs \X OrderFiles)
    \cup (CommentConfigs \X CommentFiles)

(***************************************************************************)
(* The state machine: the Program(node) listener of one lint run, the host *)
(* applying the fixes, and the second run on the fixed file.               *)
(***************************************************************************)
Init ==
    /\ \E in \in Inputs : cfg = in[1] /\ file = in[2]
    /\ pc = "idle"
    /\ pass = 1
    /\ groups = <<>>
    /\ idx = 0
    /\ expectedOrder = 0
    /\ reports = <<>>
    /\ firstReports = <<>>

\* Program(node): the import filter, the early return, groupImportsByCategory
\* and the entry of checkImportOrder (let expectedOrder = 0).
ProgramEnter ==
    /\ pc = "idle"
    /\ \/ /\ Len(file) = 0
          /\ pc' = "done"
          /\ UNCHANGED <<groups, idx, expectedOrder>>
       \/ /\ Len(file) # 0
          /\ groups' = groupImportsByCategory(cfg, file)
          /\ pc' = "order"
          /\ idx' = 1
          /\ expectedOrder' = 0
    /\ UNCHANGED <<cfg, file, pass, reports, firstReports>>

\* checkImportOrder: if (!enforceOrder) return
OrderSkip ==
    /\ pc = "order"
    /\ ~cfg.enforceOrder
    /\ pc' = "comments"
    /\ UNCHANGED <<cfg, file, pass, groups, idx, expectedOrder, reports, firstReports>>

\* checkImportOrder: one iteration of imports.forEach
OrderStep ==
    /\ pc = "order"
    /\ cfg.enforceOrder
    /\ idx <= Len(file)
    /\ LET st == OrderVisit(cfg, file, idx,
                            [expectedOrder |-> expectedOrder, reports |-> reports])
       IN  /\ expectedOrder' = st.expectedOrder
           /\ reports' = st.reports
    /\ idx' = idx + 1
    /\ UNCHANGED <<cfg, file, pc, pass, groups, firstReports>>

\* checkImportOrder: the forEach is over
OrderEnd ==
    /\ pc = "order"
    /\ cfg.enforceOrder
    /\ idx > Len(file)
    /\ pc' = "comments"
    /\ UNCHANGED <<cfg, file, pass, groups, idx, expectedOrder, reports, firstReports>>

\* checkCategoryComments(importGroups), and Program returns
CommentsCheck ==
    /\ pc = "comments"
    /\ reports' = reports \o checkCategoryComments(cfg, file, groups)
    /\ pc' = "done"
    /\ UNCHANGED <<cfg, file, pass, groups, idx, expectedOrder, firstReports>>

\* The host applies every fix of the first run and lints the result.
ApplyFixes ==
    /\ pc = "done"
    /\ pass = 1
    /\ file' = FixedFile(file, reports)
    /\ firstReports' = reports
    /\ reports' = <<>>
    /\ pass' = 2
    /\ pc' = "idle"
    /\ UNCHANGED <<cfg, groups, idx, expectedOrder>>

Next ==
    \/ ProgramEnter
    \/ OrderSkip
    \/ OrderStep
    \/ OrderEnd
    \/ CommentsCheck
    \/ ApplyFixes

Spec == Init /\ [][Next]_vars

(***************************************************************************)
(* Properties.                                                             *)
(***************************************************************************)
Nodes == 1..Len(file)

Classified(k) == ~CategoryOf(cfg, file, k).isNull

OrderOf(k) == CategoryOf(cfg, file, k).order

ReportsOfKind(rs, kinds) == {r \in 1..Len(rs) : rs[r].messageId \in kinds}

WrongOrderNodes == {reports[r].node : r \in ReportsOfKind(reports, {"wrongOrder"})}

TypeOnlyNodes == {k \in Nodes : isTypeOnlyImport(file[k])}

\* The key of the group that holds import k, <<"none">> when no group does.
GroupKeyOf(g, k) ==
    IF \E e \in 1..Len(g) : \E m \in 1..Len(g[e].imports) : g[e].imports[m] = k
    THEN g[CHOOSE e \in 1..Len(g) : \E m \in 1..Len(g[e].imports) : g[e].imports[m] = k].key
    ELSE <<"none">>

Grouped == pc \in {"order", "comments", "done"}

AllPaths == {PathA, PathBA, PathC}

(* C1. Order law: with enforceOrder on, import i gets a WrongOrder          *)
(* diagnostic if and only if it is categorized and its order is strictly    *)
(* less than the order of some (hence the maximum over all) categorized     *)
(* import before it; an import with no categorized predecessor is never     *)
(* reported.                                                                *)
C1_OrderLaw ==
    (pc = "comments" /\ cfg.enforceOrder) =>
        \A i \in Nodes :
            (i \in WrongOrderNodes) <=>
                /\ Classified(i)
                /\ \E j \in 1..(i - 1) : Classified(j) /\ OrderOf(i) < OrderOf(j)

(* C2. Type-only override: when typeImportsCategory is set, a type-only     *)
(* import is classified under that label whatever its path, with the order  *)
(* of the entry of that label (0 when there is none); no pattern is         *)
(* consulted, so every path gets the same answer and every type-only import *)
(* of the file lands in the group of that label.                            *)
C2_TypeOnlyOverride ==
    cfg.typeImportsCategory # <<>> =>
        /\ \A p \in AllPaths :
              LET r == getCategoryForImport(cfg, p, TRUE)
                  entries == {e \in 1..Len(cfg.categories) :
                                 cfg.categories[e].comment = cfg.typeImportsCategory}
              IN  /\ ~r.isNull
                  /\ r.comment = cfg.typeImportsCategory
                  /\ IF entries = {} THEN r.order = 0
                     ELSE \E e \in entries :
                            /\ r.order = cfg.categories[e].order
                            /\ \A d \in entries : e <= d
        /\ Grouped =>
              \A k \in TypeOnlyNodes : GroupKeyOf(groups, k) = cfg.typeImportsCategory

\* A type-only import whose path matches the pattern of an entry that is not
\* the type category and is declared first, grouped under the type label.
C2_Witness ==
    /\ pc = "order"
    /\ cfg.typeImportsCategory # <<>>
    /\ \E k \in TypeOnlyNodes :
          /\ Len(cfg.categories) = 2
          /\ cfg.categories[1].comment # cfg.typeImportsCategory
          /\ cfg.categories[2].comment = cfg.typeImportsCategory
          /\ cfg.categories[1].order # cfg.categories[2].order
          /\ SomePatternMatches(cfg.categories[1], file[k].path)
          /\ GroupKeyOf(groups, k) = cfg.typeImportsCategory

\* The entries a non-type-only import may be classified under, as C3 reads it:
\* those whose label is not the type label.
NonTypeEntries(c) ==
    {e \in 1..Len(c.categories) :
        c.typeImportsCategory = <<>> \/ c.categories[e].comment # c.typeImportsCategory}

\* r is the first entry among `entries`, in declaration order, one of whose
\* patterns matches the path; null when there is none.
IsFirstMatchAmong(c, entries, path, r) ==
    LET hits == {e \in entries : SomePatternMatches(c.categories[e], path)}
    IN  IF hits = {} THEN r.isNull
        ELSE \E e \in hits :
                /\ \A d \in hits : e <= d
                /\ ~r.isNull
                /\ r.comment = c.categories[e].comment
                /\ r.order = c.categories[e].order

ValueNodes == Nodes \ TypeOnlyNodes

(* C3, as claimed.  A non-type-only import gets the first entry, in         *)
(* declaration order, among the non-type categories whose patterns match    *)
(* its path, none when no such entry matches, and never the type category.  *)
C3_NonTypeScan ==
    Grouped =>
        \A k \in ValueNodes :
            /\ IsFirstMatchAmong(cfg, NonTypeEntries(cfg), file[k].path,
                                 CategoryOf(cfg, file, k))
            /\ (cfg.typeImportsCategory # <<>> =>
                    GroupKeyOf(groups, k) # cfg.typeImportsCategory)

(* C3, amended.  A non-type-only import gets the first entry, in            *)
(* declaration order (not by the order field), among ALL configured         *)
(* categories, the entry of the type label included, one of whose patterns  *)
(* matches its path; none when no entry matches; and it is grouped under    *)
(* that entry's label.                                                      *)
C3_DeclarationOrder ==
    Grouped =>
        \A k \in ValueNodes :
            LET r == CategoryOf(cfg, file, k)
            IN  /\ IsFirstMatchAmong(cfg, 1..Len(cfg.categories), file[k].path, r)
                /\ GroupKeyOf(groups, k) = (IF r.isNull THEN <<"none">> ELSE r.comment)

\* A non-type-only import whose path matches both entries, the second one
\* having the smaller order, grouped under the first.
C3_Witness ==
    /\ pc = "order"
    /\ \E k \in ValueNodes :
          /\ Len(cfg.categories) = 2
          /\ cfg.categories[1].comment # cfg.categories[2].comment
          /\ SomePatternMatches(cfg.categories[1], file[k].path)
          /\ SomePatternMatches(cfg.categories[2], file[k].path)
          /\ cfg.categories[2].order < cfg.categories[1].order
          /\ GroupKeyOf(groups, k) = cfg.categories[1].comment

Rerun == pass = 2

(* C4. Idempotence: once every fix of the first run is applied, the second  *)
(* run of the rule reports nothing at all.                                  *)
C4_Idempotence ==
    (Rerun /\ pc = "done") => reports = <<>>

\* How many leading comments of import k are normalized-equal to the label.
MatchCount(imports, k, label) ==
    Cardinality({j \in 1..Len(getCommentsBefore(imports, k)) :
                    MatchesLabel(getCommentsBefore(imports, k)[j], label)})

(* C5. Comment law: in the fixed file every category with an import has     *)
(* exactly one comment equal to its label above its first member and none   *)
(* above any later member.                                                  *)
C5_CommentLaw ==
    (Rerun /\ Grouped /\ cfg.enforceComments) =>
        \A e \in 1..Len(groups) :
            /\ MatchCount(file, Head(groups[e].imports), groups[e].key) = 1
            /\ \A m \in 2..Len(groups[e].imports) :
                  MatchCount(file, groups[e].imports[m], groups[e].key) = 0

\* The imports C6 is about: not type-only, no pattern of any entry matches.
Unmatched(c, imports) ==
    {k \in 1..Len(imports) :
        /\ ~isTypeOnlyImport(imports[k])
        /\ \A e \in 1..Len(c.categories) : ~SomePatternMatches(c.categories[e], imports[k].path)}

RemoveAt(imports, k) == SubSeq(imports, 1, k - 1) \o SubSeq(imports, k + 1, Len(imports))

\* A diagnostic without the text offsets of its fix, its anchor renumbered
\* for the file without import k.
Diagnostic(r, k) ==
    [messageId |-> r.messageId,
     node |-> IF r.node > k THEN r.node - 1 ELSE r.node,
     data |-> r.data,
     fixKind |-> r.fix.kind,
     fixText |-> r.fix.text]

Diagnostics(rs, k) == [r \in 1..Len(rs) |-> Diagnostic(rs[r], k)]

(* C6. An import that is not type-only and matches no pattern is in no      *)
(* group, anchors no diagnostic, leaves the ratchet as it was, and the      *)
(* diagnostics of the run are those of the file without it.                 *)
C6_UnclassifiedExcluded ==
    \A k \in Unmatched(cfg, file) :
        /\ Grouped => GroupKeyOf(groups, k) = <<"none">>
        /\ \A r \in 1..Len(reports) : reports[r].node # k
        /\ (pc = "order" /\ cfg.enforceOrder /\ idx = k + 1) =>
              expectedOrder = OrderWalk(cfg, file, k - 1).expectedOrder
        /\ pc = "done" =>
              Diagnostics(reports, k)
                  = Diagnostics(ProgramReports(cfg, RemoveAt(file, k)), Len(file))

\* An unclassified import standing between two classified ones, the later of
\* which is reported out of order.
C6_Witness ==
    /\ pc = "done"
    /\ \E k \in Unmatched(cfg, file) :
          /\ 1 < k /\ k < Len(file)
          /\ Classified(k - 1)
          /\ (k + 1) \in WrongOrderNodes

GroupFirsts == {Head(groups[e].imports) : e \in 1..Len(groups)}

DuplicateReports == ReportsOfKind(reports, {"duplicateComment"})

MissingReports == ReportsOfKind(reports, {"missingComment"})

(* C7. With enforceComments on, each leading comment equal to the label     *)
(* above a member of a group other than its first yields exactly one        *)
(* DuplicateComment anchored at that member, whose fix removes the comment  *)
(* from its start to one character past its end; there is no other          *)
(* DuplicateComment, none anchored at the first import of a group, and no   *)
(* fix removes a comment of a first import.                                 *)
C7_DuplicateDetection ==
    (pc = "done" /\ cfg.enforceComments) =>
        /\ \A e \in 1..Len(groups) : \A m \in 2..Len(groups[e].imports) :
              LET k == groups[e].imports[m]
              IN  \A j \in 1..Len(file[k].comments) :
                      LET hits == {r \in DuplicateReports :
                                      /\ reports[r].node = k
                                      /\ reports[r].fix.kind = "remove"
                                      /\ reports[r].fix.range =
                                           <<CommentRange(file, k, j)[1],
                                             CommentRange(file, k, j)[2] + 1>>}
                      IN  Cardinality(hits) =
                              (IF MatchesLabel(file[k].comments[j], groups[e].key)
                               THEN 1 ELSE 0)
        /\ \A r \in DuplicateReports :
              /\ reports[r].node \notin GroupFirsts
              /\ \E j \in 1..Len(file[reports[r].node].comments) :
                    /\ MatchesLabel(file[reports[r].node].comments[j],
                                    GroupKeyOf(groups, reports[r].node))
                    /\ reports[r].fix.range[1] = CommentRange(file, reports[r].node, j)[1]
        /\ \A k \in GroupFirsts : \A j \in 1..Len(file[k].comments) :
              ~Removed(file, reports, k, j)

\* Two imports of one category, each under two label comments: the second
\* import is reported twice, the first not at all.
C7_Witness ==
    /\ pc = "done"
    /\ pass = 1
    /\ cfg.enforceComments
    /\ \E e \in 1..Len(groups) :
          /\ Len(groups[e].imports) = 2
          /\ MatchCount(file, groups[e].imports[1], groups[e].key) = 2
          /\ MatchCount(file, groups[e].imports[2], groups[e].key) = 2
          /\ Cardinality(DuplicateReports) = 2

(* C8. With enforceComments on, a category present in the file gets a       *)
(* MissingComment exactly when no leading comment of its first import is    *)
(* equal to its label; the diagnostic is anchored at that first import, is  *)
(* the only one of the category, and its fix inserts the rendered label and *)
(* a line break right before that import.                                   *)
C8_MissingComment ==
    (pc = "done" /\ cfg.enforceComments) =>
        /\ \A e \in 1..Len(groups) :
              LET first == Head(groups[e].imports)
                  label == groups[e].key
                  hits == {r \in MissingReports : reports[r].node = first}
              IN  /\ Cardinality(hits) = (IF MatchCount(file, first, label) = 0 THEN 1 ELSE 0)
                  /\ \A r \in hits :
                        /\ reports[r].fix.kind = "insert"
                        /\ reports[r].fix.range = <<NodeStart(file, first), NodeStart(file, first)>>
                        /\ reports[r].fix.text = formatComment(cfg, label) \o <<"\n">>
                        /\ reports[r].data.category = formatComment(cfg, label)
        /\ \A r \in MissingReports : reports[r].node \in GroupFirsts

\* A first import under a comment that is not its label: reported, and the
\* fix puts the label below that comment.
C8_Witness ==
    /\ pc = "done"
    /\ pass = 1
    /\ cfg.enforceComments
    /\ \E e \in 1..Len(groups) :
          LET first == Head(groups[e].imports)
          IN  /\ Len(file[first].comments) = 1
              /\ MatchCount(file, first, groups[e].key) = 0
              /\ \E r \in MissingReports : reports[r].node = first

SelectReports(rs, kinds) == SelectSeq(rs, LAMBDA r : r.messageId \in kinds)

CommentKinds == {"missingComment", "duplicateComment"}

(* C9. Independent enforcement: with enforceOrder off there is no           *)
(* WrongOrder, with enforceComments off no MissingComment and no            *)
(* DuplicateComment; the WrongOrder diagnostics are those of the run with   *)
(* enforceComments toggled, and the comment diagnostics those of the run    *)
(* with enforceOrder toggled.                                               *)
C9_IndependentEnforcement ==
    pc = "done" =>
        /\ ~cfg.enforceOrder => ReportsOfKind(reports, {"wrongOrder"}) = {}
        /\ ~cfg.enforceComments => ReportsOfKind(reports, CommentKinds) = {}
        /\ SelectReports(reports, {"wrongOrder"}) =
              SelectReports(ProgramReports([cfg EXCEPT !.enforceComments = ~@], file),
                            {"wrongOrder"})
        /\ SelectReports(reports, CommentKinds) =
              SelectReports(ProgramReports([cfg EXCEPT !.enforceOrder = ~@], file),
                            CommentKinds)

\* Order enforcement off on a file that is out of order and lacks comments:
\* only the comment diagnostics are reported.
C9_Witness ==
    /\ pc = "done"
    /\ pass = 1
    /\ ~cfg.enforceOrder
    /\ cfg.enforceComments
    /\ MissingReports # {}
    /\ checkImportOrder([cfg EXCEPT !.enforceOrder = TRUE], file) # <<>>

\* One iteration of the walk of checkImportOrder, on import idx.
RatchetStep ==
    (pc = "order" /\ idx' = idx + 1) =>
        LET category == CategoryOf(cfg, file, idx)
            reported == Len(reports') = Len(reports) + 1
        IN  /\ expectedOrder' >= expectedOrder
            /\ category.isNull => (expectedOrder' = expectedOrder /\ reports' = reports)
            /\ reported =>
                  /\ expectedOrder' = expectedOrder
                  /\ reports'[Len(reports')].messageId = "wrongOrder"
                  /\ reports'[Len(reports')].node = idx
                  /\ reports'[Len(reports')].data.expectedOrder = ToString(expectedOrder)
                  /\ reports'[Len(reports')].data.actualOrder = ToString(category.order)
                  /\ category.order < expectedOrder
            /\ (~category.isNull /\ ~reported) =>
                  (expectedOrder' = category.order /\ reports' = reports)

(* C10. Ratchet monotonicity: the walk of checkImportOrder starts with the  *)
(* ratchet at 0 and never lowers it; a reported import and an unclassified  *)
(* one leave it unchanged, any other import sets it to its own order, and   *)
(* a WrongOrder names the ratchet as expected and the import's order as     *)
(* found.                                                                   *)
C10_RatchetMonotone ==
    /\ []((pc = "order" /\ idx = 1) => expectedOrder = 0)
    /\ [][RatchetStep]_vars

\* The walk after a report, the ratchet raised above 0 before it.
C10_Witness ==
    /\ pc = "order"
    /\ idx = 4
    /\ expectedOrder > 0
    /\ 2 \in WrongOrderNodes
    /\ ~Classified(3)

\* The places (bucket, position) at which import k is held by the groups.
PlacesOf(g, k) ==
    UNION {{<<e, m>> : m \in {n \in 1..Len(g[e].imports) : g[e].imports[n] = k}} :
              e \in 1..Len(g)}

(* C11. Grouping is an order-preserving partition: every classified import  *)
(* is held once, by the bucket keyed by its category label, and no          *)
(* unclassified import is held at all; a bucket holds its imports in source *)
(* order and is never empty, no two buckets share a key, and the buckets    *)
(* stand in the order in which their first imports appear in the file.      *)
C11_GroupingPartition ==
    Grouped =>
        /\ \A k \in Nodes :
              LET category == CategoryOf(cfg, file, k)
                  places == PlacesOf(groups, k)
              IN  IF ~category.isNull
                  THEN /\ Cardinality(places) = 1
                       /\ \A pl \in places : groups[pl[1]].key = category.comment
                  ELSE places = {}
        /\ \A e \in 1..Len(groups) :
              /\ Len(groups[e].imports) >= 1
              /\ \A m \in 1..Len(groups[e].imports) : groups[e].imports[m] \in Nodes
              /\ \A m \in 1..(Len(groups[e].imports) - 1) :
                    groups[e].imports[m] < groups[e].imports[m + 1]
        /\ \A e \in 1..Len(groups) : \A f \in 1..Len(groups) :
              e < f =>
                  /\ groups[e].key # groups[f].key
                  /\ Head(groups[e].imports) < Head(groups[f].imports)

\* Three imports: the category declared second appears first and holds two
\* imports, around one of the category declared first.
C11_Witness ==
    /\ pc = "order"
    /\ Len(file) = 3
    /\ Len(cfg.categories) = 2
    /\ Len(groups) = 2
    /\ groups[1] = [key |-> cfg.categories[2].comment, imports |-> <<1, 3>>]
    /\ groups[2] = [key |-> cfg.categories[1].comment, imports |-> <<2>>]

\* typeImportsCategory is set and is the label of no configured category.
ImplicitTypeCategory ==
    /\ cfg.typeImportsCategory # <<>>
    /\ \A e \in 1..Len(cfg.categories) :
          cfg.categories[e].comment # cfg.typeImportsCategory

\* The position in reports of the MissingComment of the group of a label,
\* 0 when there is none.
MissingAt(label) ==
    LET e == KeyIndex(groups, label)
        hits == IF e = 0 THEN {}
                ELSE {r \in MissingReports : reports[r].node = Head(groups[e].imports)}
    IN  IF hits = {} THEN 0 ELSE CHOOSE r \in hits : TRUE

(* C12. Implicit type category: when typeImportsCategory is set and is the  *)
(* label of no configured category, every type-only import is classified    *)
(* under that label with order 0: it is grouped under it, order-checked     *)
(* with order 0 and comment-audited with sort key 0.  A type-only import is *)
(* classified by the path patterns only when typeImportsCategory is null or *)
(* empty.                                                                   *)
C12_ImplicitTypeCategory ==
    /\ ImplicitTypeCategory =>
          /\ \A p \in AllPaths :
                getCategoryForImport(cfg, p, TRUE) = Category(cfg.typeImportsCategory, 0)
          /\ Grouped =>
                \A k \in TypeOnlyNodes : GroupKeyOf(groups, k) = cfg.typeImportsCategory
          /\ (pc = "comments" /\ cfg.enforceOrder) =>
                \A k \in TypeOnlyNodes :
                    /\ (k \in WrongOrderNodes) <=>
                          \E j \in 1..(k - 1) : Classified(j) /\ 0 < OrderOf(j)
                    /\ \A r \in ReportsOfKind(reports, {"wrongOrder"}) :
                          reports[r].node = k => reports[r].data.actualOrder = "0"
                    /\ \A j \in (k + 1)..Len(file) :
                          (j \in WrongOrderNodes) => OrderOf(j) < 0 \/
                              \E i \in 1..(j - 1) : Classified(i) /\ OrderOf(j) < OrderOf(i)
          /\ (pc = "done" /\ cfg.enforceComments /\ MissingAt(cfg.typeImportsCategory) # 0) =>
                \A e \in 1..Len(cfg.categories) :
                    LET other == MissingAt(cfg.categories[e].comment)
                        order == cfg.categories[FindByComment(cfg.categories,
                                                cfg.categories[e].comment)].order
                    IN  other # 0 =>
                            /\ order > 0 => MissingAt(cfg.typeImportsCategory) < other
                            /\ order < 0 => other < MissingAt(cfg.typeImportsCategory)
    /\ Grouped =>
          \A k \in TypeOnlyNodes :
              LET r == CategoryOf(cfg, file, k)
              IN  IF cfg.typeImportsCategory = <<>>
                  THEN IsFirstMatchAmong(cfg, 1..Len(cfg.categories), file[k].path, r)
                  ELSE ~r.isNull /\ r.comment = cfg.typeImportsCategory

\* A type-only import under a type label with no entry, after an import of a
\* positive order: grouped under the label, reported with found order 0, and
\* its MissingComment sorted before that of the other category.
C12_Witness ==
    /\ pc = "done"
    /\ pass = 1
    /\ ImplicitTypeCategory
    /\ cfg.enforceOrder
    /\ cfg.enforceComments
    /\ 2 \in TypeOnlyNodes
    /\ 2 \in WrongOrderNodes
    /\ SomePatternMatches(cfg.categories[1], file[2].path)
    /\ GroupKeyOf(groups, 2) = cfg.typeImportsCategory
    /\ MissingAt(cfg.typeImportsCategory) # 0
    /\ MissingAt(GroupKeyOf(groups, 1)) > MissingAt(cfg.typeImportsCategory)

====
